---- MODULE Spec2Model ----
(***************************************************************************)
(* A model of memo-map's MemoMap (src/src/lib.rs): a HashMap behind one    *)
(* std::sync::Mutex, insert-only, with a lock-holding iteration view.      *)
(*                                                                         *)
(* Each thread is a caller of the public operations.  A call is split at   *)
(* the points where other threads can run: the call (blocked in lock()),   *)
(* the acquisition of the mutex, the critical section, and, for            *)
(* get_or_try_insert, the creator closure that runs inside the critical    *)
(* section.  A view returned by iter()/keys() keeps the MutexGuard until   *)
(* it is dropped.                                                          *)
(***************************************************************************)
EXTENDS Integers, FiniteSets, TLC

\* ---- bounds of the model ----
NumThreads == 2
NumKeys == 2
NumValues == 2
NumErrs == 2
GhostCap == 2

Threads == 1..NumThreads
Keys == 1..NumKeys
Values == 1..NumValues
Errs == 1..NumErrs

NoThread == 0
NoVal == 0

\* ---- the closures passed as creator (FnOnce() -> Result<V, E>) ----
\* A creator returns Ok(v), returns Err(e), panics, or calls back into the
\* same container (which takes the lock again from the same thread).
NoCreator == [kind |-> "none", val |-> 0]
OkCreators == {[kind |-> "ok", val |-> v] : v \in Values}
ErrCreators == {[kind |-> "err", val |-> e] : e \in Errs}
PanicCreator == [kind |-> "panic", val |-> 0]
ReenterCreator == [kind |-> "reenter", val |-> 0]

TryCreators == OkCreators \cup ErrCreators \cup {PanicCreator, ReenterCreator}
InfallibleCreators == OkCreators \cup {PanicCreator, ReenterCreator}

\* ---- the calls a thread can make ----
NoOp == [name |-> "none", key |-> 0, val |-> 0, creator |-> NoCreator]

Calls ==
         {[name |-> "insert", key |-> k, val |-> v, creator |-> NoCreator] :
              k \in Keys, v \in Values}
    \cup {[name |-> n, key |-> k, val |-> 0, creator |-> NoCreator] :
              n \in {"contains_key", "get"}, k \in Keys}
    \cup {[name |-> "get_or_try_insert", key |-> k, val |-> 0, creator |-> c] :
              k \in Keys, c \in TryCreators}
    \cup {[name |-> "get_or_insert", key |-> k, val |-> 0, creator |-> c] :
              k \in Keys, c \in InfallibleCreators}
    \cup {[name |-> n, key |-> 0, val |-> 0, creator |-> NoCreator] :
              n \in {"len", "is_empty", "iter", "keys"}}

\* ---- what a call handed back to its caller ----
\* kind: "bool", "some", "none", "ok", "err", "ref", "int", "view",
\*       "item", "end"; created: this call ran its creator.
\* arg: the value the call was given (insert's second argument).
\* addr: for a returned reference, where it points.
NoRet == [name |-> "none", key |-> 0, arg |-> 0, kind |-> "none", val |-> 0, created |-> FALSE,
          addr |-> 0]

\* rest: the keys still to come; seen: the keys already yielded
NoView == [kind |-> "none", rest |-> {}, seen |-> {}]
NextOp(n) == [name |-> n, key |-> 0, val |-> 0, creator |-> NoCreator]

VARIABLES
    table,      \* inner: HashMap<K, V, S>  (key -> value, NoVal when vacant)
    lockOwner,  \* the thread holding the MutexGuard of inner, or NoThread
    poisoned,   \* the Mutex's poison flag
    pc,         \* where each thread is
    op,         \* the call each thread is in
    ret,        \* what each thread's last call returned
    view,       \* the Iter/Keys each thread owns
    invoked,    \* history: per key, invocations of creators that return a value (capped)
    writes,     \* history: stores into the table per key (capped)
    storedBy,   \* history: per key, the operation that reported storing it
    gen,        \* the allocation the table's entries live in (counts the moves)
    c2,         \* the container made by clone(): its own HashMap
    lockOwner2  \* the thread holding the guard of the clone's own Mutex

vars == <<table, lockOwner, poisoned, pc, op, ret, view, invoked, writes, storedBy,
          gen, c2, lockOwner2>>

Bump(n) == IF n < GhostCap THEN n + 1 ELSE n

\* the kinds of result that carry a reference to a stored value
RefKinds == {"some", "ok", "ref"}

\* Some(unsafe { transmute::<_, _>(value) }): `value` is the &V that
\* HashMap::get handed out, a pointer to the V inside the table's current
\* allocation; its lifetime is extended, the pointer is what it was
RefAddr(allocation) == allocation

Ret(o, kind, val, created) ==
    [name |-> o.name, key |-> o.key, arg |-> o.val, kind |-> kind, val |-> val,
     created |-> created,
     addr |-> IF kind \in RefKinds THEN RefAddr(gen') ELSE 0]

\* ---- std::collections::HashMap as used by the container ----
Present(tbl) == {k \in Keys : tbl[k] # NoVal}

\* a lookup that never finds the key
NeverFound(tbl, k) == FALSE

\* HashMap::contains_key, HashMap::get(..).is_some()
ContainsKey(tbl, k) == tbl[k] # NoVal

\* a len that only tells an empty table from a non-empty one
NonEmptyFlag(tbl) == IF Present(tbl) = {} THEN 0 ELSE 1

\* HashMap::len
Len(tbl) == Cardinality(Present(tbl))

\* an is_empty that never says yes
NeverEmpty(tbl) == FALSE

\* HashMap::is_empty
IsEmpty(tbl) == Len(tbl) = 0

\* HashMap::insert(k, v): stores v under k, replacing what was there
MapInsert(tbl, k, v) == [tbl EXCEPT ![k] = v]

\* no clone has been made
NoClone == [made |-> FALSE, inner |-> [k \in Keys |-> NoVal]]

Init ==
    /\ table = [k \in Keys |-> NoVal]
    /\ lockOwner = NoThread
    /\ poisoned = FALSE
    /\ pc = [t \in Threads |-> "idle"]
    /\ op = [t \in Threads |-> NoOp]
    /\ ret = [t \in Threads |-> NoRet]
    /\ view = [t \in Threads |-> NoView]
    /\ invoked = [k \in Keys |-> 0]
    /\ writes = [k \in Keys |-> 0]
    /\ storedBy = [k \in Keys |-> "none"]
    /\ gen = 0
    /\ c2 = NoClone
    /\ lockOwner2 = NoThread

\* ---- the Mutex ----
\* a lock! that hands the PoisonError to the caller (self.inner.lock()?)
LockOrPoisonError(isPoisoned) == IF isPoisoned THEN "poison_error" ELSE "guard"

\* lock!: a poisoned lock still yields its guard (poisoned.into_inner())
LockOutcome(isPoisoned) == "guard"

\* a lock that lets a second thread in while it is held
NeverBlocks(owner) == TRUE

\* Mutex::lock returns once no thread holds the guard
LockAvailable(owner) == owner = NoThread

\* a guard that is forgotten (mem::forget) instead of dropped
GuardForgotten == lockOwner' = lockOwner

\* MutexGuard::drop: unlock; the flag is set when the owner is panicking
Unlock == lockOwner' = NoThread

\* an insert that takes every entry for vacant
EntryAlwaysVacant(tbl, k) == TRUE

\* match inner.entry(key): Entry::Vacant or Entry::Occupied
EntryVacant(tbl, k) == ~ContainsKey(tbl, k)

\* a get_or_try_insert that drops its guard before it calls the creator
GuardDroppedBeforeCreator(t) == NoThread

\* the owner of `inner` while creator() runs: the guard taken at the top of
\* get_or_try_insert lives to the end of the function
GuardWhileCreating(t) == t

\* a `?` that converts the creator's failure into another one
ConvertedErr(e) == e + 1

\* what `creator()?` hands to the caller when the creator returns Err(e)
PropagatedErr(e) == e

\* the entry get_or_try_insert writes once the creator returned Ok(v)
CreatedEntry(k, v) == [key |-> k, val |-> v]

\* an Iter without its Drop impl: the ManuallyDrop guard is never dropped
GuardLeaked(t) == t

\* Drop for Iter: ManuallyDrop::drop(&mut self.guard)
GuardAfterViewDrop(t) == NoThread

\* an iterator that does not advance
ViewRestKept(rest, k) == rest

\* Iterator::next on hash_map::Iter: the entries not yet yielded
ViewRestAfter(rest, k) == rest \ {k}

\* ---- a thread calls an operation: it is now inside lock!(self.inner) ----
Invoke(t, o) ==
    /\ UNCHANGED <<gen, c2, lockOwner2>>
    /\ pc[t] = "idle"
    /\ op' = [op EXCEPT ![t] = o]
    /\ pc' = [pc EXCEPT ![t] = "wait"]
    /\ ret' = [ret EXCEPT ![t] = NoRet]
    /\ UNCHANGED <<table, lockOwner, poisoned, view, invoked, writes, storedBy>>

Call(t) == \E o \in Calls : Invoke(t, o)

\* ---- lock!(self.inner) returns the guard ----
Acquire(t) ==
    /\ UNCHANGED <<gen, c2, lockOwner2>>
    /\ pc[t] = "wait"
    /\ LockAvailable(lockOwner)
    /\ IF LockOutcome(poisoned) = "guard"
       THEN /\ lockOwner' = t
            /\ pc' = [pc EXCEPT ![t] = "locked"]
            /\ UNCHANGED <<op, ret>>
       ELSE /\ lockOwner' = NoThread
            /\ pc' = [pc EXCEPT ![t] = "idle"]
            /\ ret' = [ret EXCEPT ![t] = Ret(op[t], "poison_error", 0, FALSE)]
            /\ op' = [op EXCEPT ![t] = NoOp]
    /\ UNCHANGED <<table, poisoned, view, invoked, writes, storedBy>>

\* the call returns r and its guard goes out of scope
Return(t, r) ==
    /\ pc' = [pc EXCEPT ![t] = "idle"]
    /\ op' = [op EXCEPT ![t] = NoOp]
    /\ ret' = [ret EXCEPT ![t] = r]
    /\ Unlock

\* ---- MemoMap::insert: the entry and the result ----
InsertEntry(t) ==
    /\ pc[t] = "locked"
    /\ op[t].name = "insert"
    /\ LET k == op[t].key
           v == op[t].val
       IN IF EntryVacant(table, k)
          THEN /\ table' = MapInsert(table, k, v)
               /\ writes' = [writes EXCEPT ![k] = Bump(@)]
               /\ storedBy' = [storedBy EXCEPT ![k] = "insert"]
               /\ Return(t, Ret(op[t], "bool", 1, FALSE))
          ELSE /\ UNCHANGED <<table, writes, storedBy>>
               /\ Return(t, Ret(op[t], "bool", 0, FALSE))
    /\ UNCHANGED <<poisoned, view, invoked>>
    /\ UNCHANGED <<c2, lockOwner2>>

\* ---- MemoMap::insert, the table's allocation has room for the entry ----
Insert(t) == gen' = gen /\ InsertEntry(t)

\* ---- MemoMap::insert, vacant.insert(value) makes the table grow: the
\* HashMap takes a larger allocation and moves every (K, V) into it ----
InsertGrow(t) ==
    /\ pc[t] = "locked"
    /\ op[t].name = "insert"
    /\ EntryVacant(table, op[t].key)
    /\ gen' = gen + 1
    /\ InsertEntry(t)

\* ---- MemoMap::contains_key ----
ContainsKeyOp(t) ==
    /\ UNCHANGED <<gen, c2, lockOwner2>>
    /\ pc[t] = "locked"
    /\ op[t].name = "contains_key"
    /\ Return(t, Ret(op[t], "bool", IF ContainsKey(table, op[t].key) THEN 1 ELSE 0, FALSE))
    /\ UNCHANGED <<table, poisoned, view, invoked, writes, storedBy>>

\* ---- MemoMap::get ----
Get(t) ==
    /\ UNCHANGED <<gen, c2, lockOwner2>>
    /\ pc[t] = "locked"
    /\ op[t].name = "get"
    /\ IF ContainsKey(table, op[t].key)
       THEN Return(t, Ret(op[t], "some", table[op[t].key], FALSE))
       ELSE Return(t, Ret(op[t], "none", 0, FALSE))
    /\ UNCHANGED <<table, poisoned, view, invoked, writes, storedBy>>

\* ---- MemoMap::len ----
LenOp(t) ==
    /\ UNCHANGED <<gen, c2, lockOwner2>>
    /\ pc[t] = "locked"
    /\ op[t].name = "len"
    /\ Return(t, Ret(op[t], "int", Len(table), FALSE))
    /\ UNCHANGED <<table, poisoned, view, invoked, writes, storedBy>>

\* ---- MemoMap::is_empty ----
IsEmptyOp(t) ==
    /\ UNCHANGED <<gen, c2, lockOwner2>>
    /\ pc[t] = "locked"
    /\ op[t].name = "is_empty"
    /\ Return(t, Ret(op[t], "bool", IF IsEmpty(table) THEN 1 ELSE 0, FALSE))
    /\ UNCHANGED <<table, poisoned, view, invoked, writes, storedBy>>

\* the result kind of the two insert-or-fetch entry points:
\* Result<&V, E> for get_or_try_insert, &V for get_or_insert (after unwrap)
FetchKind(o) == IF o.name = "get_or_insert" THEN "ref" ELSE "ok"

IsFetch(o) == o.name \in {"get_or_try_insert", "get_or_insert"}

\* ---- MemoMap::get_or_try_insert, up to the call of creator ----
\* (get_or_insert forwards to it with || Ok(creator()))
GetOrTryInsert(t) ==
    /\ UNCHANGED <<gen, c2, lockOwner2>>
    /\ pc[t] = "locked"
    /\ IsFetch(op[t])
    /\ LET k == op[t].key
       IN IF ContainsKey(table, k)
          THEN /\ Return(t, Ret(op[t], FetchKind(op[t]), table[k], FALSE))
               /\ UNCHANGED invoked
          ELSE /\ pc' = [pc EXCEPT ![t] = "creator"]
               /\ lockOwner' = GuardWhileCreating(t)
               /\ invoked' = [invoked EXCEPT ![k] =
                                 IF op[t].creator.kind = "ok" THEN Bump(@) ELSE @]
               /\ UNCHANGED <<op, ret>>
    /\ UNCHANGED <<table, poisoned, view, writes, storedBy>>

\* ---- the creator returned Ok(v): inner.insert(key.to_owned(), v); inner.get(key).unwrap() ----
CreatorOkEntry(t) ==
    /\ pc[t] = "creator"
    /\ op[t].creator.kind = "ok"
    /\ LET e == CreatedEntry(op[t].key, op[t].creator.val)
       IN /\ table' = MapInsert(table, e.key, e.val)
          /\ writes' = [writes EXCEPT ![e.key] = Bump(@)]
          /\ storedBy' = [storedBy EXCEPT ![e.key] = "creator"]
          /\ Return(t, Ret(op[t], FetchKind(op[t]), table'[op[t].key], TRUE))
    /\ UNCHANGED <<poisoned, view, invoked>>
    /\ UNCHANGED <<c2, lockOwner2>>

\* the table's allocation has room for the entry
CreatorOk(t) == gen' = gen /\ CreatorOkEntry(t)

\* inner.insert makes the table grow and move its entries; the reference
\* handed back is taken from the new allocation (inner.get after inner.insert)
CreatorOkGrow(t) == gen' = gen + 1 /\ CreatorOkEntry(t)

\* ---- the creator returned Err(e): `?` returns it, nothing is inserted ----
CreatorErr(t) ==
    /\ UNCHANGED <<gen, c2, lockOwner2>>
    /\ pc[t] = "creator"
    /\ op[t].creator.kind = "err"
    /\ Return(t, Ret(op[t], "err", PropagatedErr(op[t].creator.val), TRUE))
    /\ UNCHANGED <<table, poisoned, view, invoked, writes, storedBy>>

\* ---- the creator panicked: unwinding drops the guard, which poisons the mutex ----
CreatorPanic(t) ==
    /\ UNCHANGED <<gen, c2, lockOwner2>>
    /\ pc[t] = "creator"
    /\ op[t].creator.kind = "panic"
    /\ pc' = [pc EXCEPT ![t] = "dead"]
    /\ op' = [op EXCEPT ![t] = NoOp]
    /\ Unlock
    /\ poisoned' = TRUE
    /\ UNCHANGED <<table, ret, view, invoked, writes, storedBy>>

\* ---- the creator calls an operation of the same container ----
CreatorReenter(t) ==
    /\ UNCHANGED <<gen, c2, lockOwner2>>
    /\ pc[t] = "creator"
    /\ op[t].creator.kind = "reenter"
    /\ \E o \in Calls :
        /\ o.creator.kind # "reenter"
        /\ op' = [op EXCEPT ![t] = o]
    /\ pc' = [pc EXCEPT ![t] = "wait"]
    /\ UNCHANGED <<table, lockOwner, poisoned, ret, view, invoked, writes, storedBy>>

\* ---- MemoMap::iter and MemoMap::keys: the guard moves into the view ----
Iter(t) ==
    /\ UNCHANGED <<gen, c2, lockOwner2>>
    /\ pc[t] = "locked"
    /\ op[t].name \in {"iter", "keys"}
    /\ view' = [view EXCEPT ![t] =
                    [kind |-> op[t].name, rest |-> Present(table), seen |-> {}]]
    /\ pc' = [pc EXCEPT ![t] = "idle"]
    /\ ret' = [ret EXCEPT ![t] = Ret(op[t], "view", 0, FALSE)]
    /\ op' = [op EXCEPT ![t] = NoOp]
    /\ UNCHANGED <<table, lockOwner, poisoned, invoked, writes, storedBy>>

\* ---- Iterator::next for Iter and Keys ----
ViewNext(t) ==
    /\ UNCHANGED <<gen, c2, lockOwner2>>
    /\ pc[t] = "idle"
    /\ view[t] # NoView
    /\ IF view[t].rest = {}
       THEN /\ ret' = [ret EXCEPT ![t] = Ret(NextOp(view[t].kind), "end", 0, FALSE)]
            /\ UNCHANGED view
       ELSE \E k \in view[t].rest :
            /\ view' = [view EXCEPT ![t].rest = ViewRestAfter(@, k),
                                     ![t].seen = @ \cup {k}]
            /\ ret' = [ret EXCEPT ![t] =
                          [name |-> view[t].kind, key |-> k, arg |-> 0, kind |-> "item",
                           val |-> IF view[t].kind = "iter" THEN table[k] ELSE 0,
                           created |-> FALSE, addr |-> 0]]
    /\ UNCHANGED <<table, lockOwner, poisoned, pc, op, invoked, writes, storedBy>>

\* ---- Drop for Iter (a Keys drops the Iter it wraps) ----
ViewDrop(t) ==
    /\ UNCHANGED <<gen, c2, lockOwner2>>
    /\ pc[t] = "idle"
    /\ view[t] # NoView
    /\ view' = [view EXCEPT ![t] = NoView]
    /\ lockOwner' = GuardAfterViewDrop(t)
    /\ UNCHANGED <<table, poisoned, pc, op, ret, invoked, writes, storedBy>>

\* ---- the owner of a view panics: unwinding drops the view and poisons the mutex ----
ViewPanic(t) ==
    /\ UNCHANGED <<gen, c2, lockOwner2>>
    /\ pc[t] = "idle"
    /\ view[t] # NoView
    /\ view' = [view EXCEPT ![t] = NoView]
    /\ lockOwner' = GuardAfterViewDrop(t)
    /\ poisoned' = TRUE
    /\ pc' = [pc EXCEPT ![t] = "dead"]
    /\ UNCHANGED <<table, op, ret, invoked, writes, storedBy>>

Next ==
    \E t \in Threads :
        \/ Call(t)
        \/ Acquire(t)
        \/ Insert(t)
        \/ ContainsKeyOp(t)
        \/ Get(t)
        \/ LenOp(t)
        \/ IsEmptyOp(t)
        \/ GetOrTryInsert(t)
        \/ CreatorOk(t)
        \/ CreatorErr(t)
        \/ CreatorPanic(t)
        \/ CreatorReenter(t)
        \/ Iter(t)
        \/ ViewNext(t)
        \/ ViewDrop(t)
        \/ ViewPanic(t)

Spec == Init /\ [][Next]_vars

TypeOK ==
    /\ table \in [Keys -> Values \cup {NoVal}]
    /\ lockOwner \in Threads \cup {NoThread}
    /\ poisoned \in BOOLEAN
    /\ pc \in [Threads -> {"idle", "wait", "locked", "creator", "dead", "wait2", "locked2"}]
    /\ c2 \in [made : BOOLEAN, inner : [Keys -> Values \cup {NoVal}]]
    /\ lockOwner2 \in Threads \cup {NoThread}

\* ---- the steps the properties speak about ----
\* thread t's call returns in this step
Returning(t) == pc[t] \in {"locked", "creator"} /\ pc'[t] = "idle"

\* thread t's call enters its creator in this step
EnteringCreator(t) == pc[t] = "locked" /\ pc'[t] = "creator"

\* the last call of t was a get_or_insert / get_or_try_insert on k that handed back a value
Fetched(t, k) == IsFetch(ret[t]) /\ ret[t].key = k /\ ret[t].kind \in {"ok", "ref"}

\* the last call of t reported that it stored a value under k
Stored(t, k) ==
    /\ ret[t].key = k
    /\ \/ ret[t].name = "insert" /\ ret[t].val = 1
       \/ IsFetch(ret[t]) /\ ret[t].created /\ ret[t].kind \in {"ok", "ref"}

C2_StateInv ==
    \A k \in Keys :
        /\ writes[k] <= 1
        /\ Cardinality({t \in Threads : Stored(t, k)}) <= 1
        /\ \A t \in Threads : Fetched(t, k) => ret[t].val = table[k]
        /\ \A t \in Threads :
            (ret[t].name = "insert" /\ ret[t].key = k) => table[k] # NoVal

C2_Step ==
    \A t \in Threads :
        (Returning(t) /\ op[t].name \in {"insert", "get_or_try_insert", "get_or_insert"}
            /\ table[op[t].key] # NoVal) =>
                /\ table' = table
                /\ writes' = writes
                /\ op[t].name = "insert" => ret'[t].val = 0
                /\ IsFetch(op[t]) => (ret'[t].val = table[op[t].key] /\ ~ret'[t].created)

C2_SingleWinner == []C2_StateInv /\ [][C2_Step]_vars

\* one call stored the key and two kinds of losers observed it
C2_Witness ==
    \E k \in Keys : \E t, u \in Threads :
        /\ t # u
        /\ Stored(t, k)
        /\ \/ ret[u].name = "insert" /\ ret[u].key = k /\ ret[u].val = 0
              /\ ret[u].arg # table[k]
           \/ Fetched(u, k) /\ ~ret[u].created
        /\ writes[k] = 1

\* C3: the first insert(K, v) on a container without K returns true and stores
\* v; every later insert(K, v2) returns false and leaves the table as it was,
\* and get(K) yields the original v.
C3_StateInv ==
    \A t, u \in Threads :
        /\ (ret[t].name = "insert" /\ ret[t].val = 1) => table[ret[t].key] = ret[t].arg
        /\ (ret[t].name = "insert" /\ ret[t].val = 1
                /\ ret[u].name = "get" /\ ret[u].key = ret[t].key /\ ret[u].kind = "some")
            => ret[u].val = ret[t].arg
        /\ (ret[t].name = "insert" /\ ret[t].val = 1
                /\ ret[u].name = "insert" /\ ret[u].key = ret[t].key /\ u # t)
            => ret[u].val = 0

C3_Step ==
    \A t \in Threads :
        (Returning(t) /\ op[t].name = "insert") =>
            IF table[op[t].key] = NoVal
            THEN /\ ret'[t].val = 1
                 /\ table' = [table EXCEPT ![op[t].key] = op[t].val]
            ELSE /\ ret'[t].val = 0
                 /\ table' = table
                 /\ Len(table') = Len(table)

C3_InsertOnce == []C3_StateInv /\ [][C3_Step]_vars

\* insert(K, v) returned true, a later insert(K, v2) with another value
\* returned false
C3_Witness ==
    \E t, u \in Threads :
        /\ ret[t].name = "insert" /\ ret[t].val = 1
        /\ ret[u].name = "insert" /\ ret[u].val = 0
        /\ ret[u].key = ret[t].key
        /\ ret[u].arg # ret[t].arg
        /\ table[ret[t].key] = ret[t].arg

\* C4: get_or_insert(K, f1) followed by get_or_insert(K, f2) returns the same
\* stored value both times and f2 is never invoked, whatever runs in between:
\* a returned value is the table's value for K from then on, a call that finds
\* K returns the table's value without running its creator, and a creator
\* only starts while K is absent and no get_or_insert(K) has returned.
C4_StateInv ==
    \A t, u \in Threads :
        /\ (ret[t].name = "get_or_insert" /\ ret[t].kind = "ref") =>
               table[ret[t].key] = ret[t].val
        /\ (ret[t].name = "get_or_insert" /\ ret[t].kind = "ref"
                /\ ret[u].name = "get_or_insert" /\ ret[u].kind = "ref"
                /\ ret[u].key = ret[t].key) => ret[u].val = ret[t].val
        /\ (pc[t] = "creator" /\ Fetched(u, op[t].key)) => FALSE

C4_Step ==
    \A t \in Threads :
        /\ (Returning(t) /\ op[t].name = "get_or_insert" /\ table[op[t].key] # NoVal) =>
               /\ ret'[t].kind = "ref"
               /\ ret'[t].val = table[op[t].key]
               /\ ~ret'[t].created
               /\ table' = table
        /\ EnteringCreator(t) =>
               /\ table[op[t].key] = NoVal
               /\ \A u \in Threads : ~Fetched(u, op[t].key)
        /\ \A k \in Keys : table[k] # NoVal => table'[k] = table[k]

C4_Memoized == []C4_StateInv /\ [][C4_Step]_vars

\* the first get_or_insert(K, f1) created the value, a second one (whose call
\* started after the first had returned, as no two calls hold the lock at
\* once) returned it without creating
C4_Witness ==
    \E t, u \in Threads :
        /\ t # u
        /\ ret[t].name = "get_or_insert" /\ ret[t].kind = "ref" /\ ret[t].created
        /\ ret[u].name = "get_or_insert" /\ ret[u].kind = "ref" /\ ~ret[u].created
        /\ ret[u].key = ret[t].key
        /\ ret[u].val = ret[t].val
        /\ storedBy[ret[t].key] = "creator"

\* C5: a creator that fails makes get_or_try_insert return that failure
\* unchanged and leaves the table as it was (K still absent, same len); a
\* later get_or_try_insert(K, g) whose creator succeeds stores g's value
\* under K and returns it.
C5_StateInv ==
    \A t \in Threads :
        ret[t].kind = "err" => (ret[t].name = "get_or_try_insert" /\ ret[t].created)

C5_Step ==
    \A t \in Threads :
        (Returning(t) /\ pc[t] = "creator" /\ op[t].name = "get_or_try_insert") =>
            IF op[t].creator.kind = "err"
            THEN /\ ret'[t].kind = "err"
                 /\ ret'[t].val = op[t].creator.val
                 /\ table' = table
                 /\ ~ContainsKey(table', op[t].key)
                 /\ Len(table') = Len(table)
            ELSE /\ op[t].creator.kind = "ok"
                 /\ ret'[t].kind = "ok"
                 /\ ret'[t].val = op[t].creator.val
                 /\ table' = [table EXCEPT ![op[t].key] = op[t].creator.val]

C5_FailureAtomic == []C5_StateInv /\ [][C5_Step]_vars

\* a get_or_try_insert failed for K (K was absent then) and another one
\* stored its creator's value under K (so it ran after the failure)
C5_Witness ==
    \E t, u \in Threads :
        /\ ret[t].name = "get_or_try_insert" /\ ret[t].kind = "err"
        /\ ret[u].name = "get_or_try_insert" /\ ret[u].kind = "ok" /\ ret[u].created
        /\ ret[u].key = ret[t].key
        /\ table[ret[u].key] = ret[u].val

\* C6: in every step of every execution the table only grows: a present key
\* stays present with the same value.
C6_Monotonic ==
    [][\A k \in Keys : table[k] # NoVal => table'[k] = table[k]]_vars

\* a key is stored, an insert of another value under it has been turned
\* away, and a thread has terminated abnormally
C6_Witness ==
    \E t, u \in Threads :
        /\ ret[t].name = "insert" /\ ret[t].val = 0
        /\ table[ret[t].key] # NoVal
        /\ ret[t].arg # table[ret[t].key]
        /\ pc[u] = "dead"

\* the keys whose insertion some call reported
InsertedKeys == {k \in Keys : storedBy[k] # "none"}

\* C7: len() is the number of distinct keys successfully inserted so far
\* (insert returning true, or a creator's value stored); failed creators and
\* insert returning false add nothing.
C7_StateInv == Len(table) = Cardinality(InsertedKeys)

C7_Step ==
    \A t \in Threads :
        /\ (Returning(t) /\ op[t].name = "len") =>
               (ret'[t].kind = "int" /\ ret'[t].val = Cardinality(InsertedKeys))
        /\ (Returning(t) /\ op[t].name = "insert" /\ ret'[t].val = 0) =>
               InsertedKeys' = InsertedKeys
        /\ (Returning(t) /\ ret'[t].kind = "err") => InsertedKeys' = InsertedKeys
        /\ Cardinality(InsertedKeys') - Cardinality(InsertedKeys) \in {0, 1}

C7_LenCounts == []C7_StateInv /\ [][C7_Step]_vars

\* len() returned 2 after both keys were inserted, one by insert and one by
\* a creator
C7_Witness ==
    \E t \in Threads :
        /\ ret[t].name = "len" /\ ret[t].val = 2
        /\ \E k1, k2 \in Keys : storedBy[k1] = "insert" /\ storedBy[k2] = "creator"

\* C8: a thread that terminates abnormally while it holds the lock (its
\* creator panics, or it panics while it owns a view) leaves every key absent
\* or fully inserted (the panicking creator's key absent), releases the lock,
\* and later operations take the lock as usual: no call returns a poisoning
\* error.
C8_StateInv ==
    /\ \A t \in Threads : ret[t].kind # "poison_error"
    /\ table \in [Keys -> Values \cup {NoVal}]
    /\ \A k \in Keys : (table[k] # NoVal) = (storedBy[k] # "none")
    /\ \A t \in Threads : pc[t] = "dead" => (lockOwner # t /\ view[t] = NoView)
    /\ \A t \in Threads :
        (poisoned /\ pc[t] = "wait" /\ lockOwner = NoThread) => ENABLED Acquire(t)

C8_Step ==
    \A t \in Threads :
        /\ (pc[t] # "dead" /\ pc'[t] = "dead") =>
               /\ lockOwner = t
               /\ lockOwner' = NoThread
               /\ poisoned'
               /\ table' = table
               /\ pc[t] = "creator" => table'[op[t].key] = NoVal
        /\ (pc[t] = "wait" /\ pc'[t] # "wait") =>
               (pc'[t] = "locked" /\ lockOwner' = t /\ ret'[t] = ret[t])

C8_PoisonRecovery == []C8_StateInv /\ [][C8_Step]_vars

\* after a panic under the lock another thread completed an insertion
C8_Witness ==
    \E t, u \in Threads :
        /\ poisoned
        /\ pc[t] = "dead"
        /\ Stored(u, ret[u].key)
        /\ lockOwner = NoThread

\* C9: from the return of iter()/keys() until the view is discarded the lock
\* is held by the view; it is released exactly once, when the view is
\* discarded, however far the view was iterated.
C9_StateInv ==
    \A t \in Threads : view[t] # NoView => lockOwner = t

C9_Step ==
    \A t \in Threads :
        /\ (view[t] = NoView /\ view'[t] # NoView) =>
               (lockOwner = t /\ lockOwner' = t /\ ret'[t].kind = "view")
        /\ (view[t] # NoView /\ view'[t] = NoView) =>
               (lockOwner = t /\ lockOwner' = NoThread)
        /\ (view[t] # NoView /\ lockOwner' # t) => view'[t] = NoView

C9_ViewHoldsLock == []C9_StateInv /\ [][C9_Step]_vars

\* a view was iterated in part (one of two entries yielded) and then
\* discarded: the lock is free again
C9_Witness ==
    \E t \in Threads :
        /\ ret[t].kind = "item"
        /\ Len(table) = 2
        /\ view[t] = NoView
        /\ pc[t] = "idle"
        /\ lockOwner = NoThread

\* ---- the same program with the progress the threads and the lock give ----
\* The calls of the progress specification: the view-creating calls and the
\* inserting calls with every kind of infallible creator.
LiveCalls ==
    {o \in Calls : o.name \in {"iter", "keys", "insert", "get_or_insert"}}

LiveCall(t) == \E o \in LiveCalls : Invoke(t, o)

LiveNext ==
    \E t \in Threads :
        \/ LiveCall(t)
        \/ Acquire(t)
        \/ Insert(t)
        \/ GetOrTryInsert(t)
        \/ CreatorOk(t)
        \/ CreatorPanic(t)
        \/ CreatorReenter(t)
        \/ Iter(t)
        \/ ViewNext(t)
        \/ ViewDrop(t)
        \/ ViewPanic(t)

\* A thread inside a critical section runs on to its end, a creator comes to
\* its end (it returns, panics or calls the container), the owner of a view
\* gets to the end of the view's scope unless it blocks first, and the mutex
\* is fair: a thread that finds the lock free again and again gets it.
\* Nothing makes a thread start a call.
LiveFairness ==
    \A t \in Threads :
        /\ WF_vars(Insert(t) \/ GetOrTryInsert(t) \/ Iter(t))
        /\ WF_vars(CreatorOk(t) \/ CreatorPanic(t) \/ CreatorReenter(t))
        /\ WF_vars(ViewDrop(t))
        /\ SF_vars(Acquire(t))

LiveSpec == Init /\ [][LiveNext]_vars /\ LiveFairness

\* thread t is inside lock() while another thread's view is alive
Blocked(t) == pc[t] = "wait" /\ \E u \in Threads : u # t /\ view[u] # NoView

\* thread t's call is over: it has returned, or its creator panicked
Done(t) == (pc[t] = "idle" /\ ret[t] # NoRet) \/ pc[t] = "dead"

ViewAlive == \E u \in Threads : view[u] # NoView

\* some thread is inside lock() while it holds the lock itself
SelfDeadlocked == \E u \in Threads : pc[u] = "wait" /\ lockOwner = u

\* while a view stays alive, no other thread's call takes effect or returns
C10_Step ==
    \A u \in Threads :
        (view[u] # NoView /\ view'[u] # NoView) =>
            /\ table' = table
            /\ \A t \in Threads \ {u} :
                /\ ret'[t] = ret[t] \/ (pc[t] = "idle" /\ pc'[t] = "wait")
                /\ pc'[t] \in {pc[t], "wait"}
                /\ view'[t] = view[t]

\* C10 as stated: a call of another thread made while a view is alive does
\* nothing before the view is discarded, and once the view is discarded the
\* call eventually gets the lock and completes.
C10_BlockedUntilDiscard_Original ==
    /\ [][C10_Step]_vars
    /\ \A t \in Threads : Blocked(t) ~> (Done(t) \/ []ViewAlive)

\* C10, amended: ... the call eventually gets the lock and completes, unless
\* some thread calls into the container while it holds the container's lock
\* (then the lock is never released again).
C10_BlockedUntilDiscard ==
    /\ [][C10_Step]_vars
    /\ \A t \in Threads : Blocked(t) ~> (Done(t) \/ []ViewAlive \/ SelfDeadlocked)

\* a call that waited for a view to go away has stored its value: the other
\* thread's last result is still the view's item, the view is gone
C10_Witness ==
    \E t, u \in Threads :
        /\ t # u
        /\ ret[u].kind \in {"item", "end", "view"}
        /\ view[u] = NoView
        /\ pc[u] = "idle"
        /\ Stored(t, ret[t].key)
        /\ Len(table) = 1

\* thread t is inside lock() of the container whose lock it holds itself
SelfBlocked(t) == pc[t] = "wait" /\ lockOwner = t

\* C11: the lock is not re-entrant: a thread that calls an operation while it
\* holds the lock (it owns a live view, or it is running a creator) blocks for
\* good, the lock is never released, and no later operation of any thread
\* gets the lock or returns.
C11_StateInv ==
    \A t \in Threads :
        SelfBlocked(t) =>
            /\ \A u \in Threads : ~ENABLED Acquire(u)
            /\ \A u \in Threads : pc[u] \in {"idle", "wait", "dead"}

C11_Step ==
    \A t \in Threads :
        /\ (lockOwner = t /\ pc[t] # "wait" /\ pc'[t] = "wait") => SelfBlocked(t)'
        /\ SelfBlocked(t) =>
            /\ SelfBlocked(t)'
            /\ table' = table
            /\ view' = view
            /\ \A u \in Threads :
                /\ pc[u] = "wait" => pc'[u] = "wait"
                /\ pc'[u] \in {pc[u], "wait"}
                /\ ret'[u] \in {ret[u], NoRet}

C11_NotReentrant == []C11_StateInv /\ [][C11_Step]_vars

\* the owner of a live view called an operation and the other thread's call
\* waits behind it
C11_Witness ==
    \E t, u \in Threads :
        /\ t # u
        /\ SelfBlocked(t)
        /\ view[t] # NoView
        /\ pc[u] = "wait"
        /\ op[u].name = "insert"

\* C12: while a creator runs, its caller holds the lock: between the call's
\* absent-key check and its insertion no other thread reads or changes the
\* table, whatever key the other thread's operation is about.
C12_StateInv ==
    \A t \in Threads :
        pc[t] = "creator" =>
            /\ lockOwner = t
            /\ table[op[t].key] = NoVal
            /\ \A u \in Threads \ {t} :
                /\ pc[u] \in {"idle", "wait", "dead"}
                /\ view[u] = NoView

C12_Step ==
    \A t \in Threads :
        /\ (pc[t] = "creator" /\ pc'[t] = "creator") =>
               /\ table' = table
               /\ \A u \in Threads \ {t} : ret'[u] \in {ret[u], NoRet}
        /\ (pc[t] = "creator" /\ pc'[t] = "idle" /\ ret'[t].kind \in RefKinds) =>
               table' = [table EXCEPT ![op[t].key] = op[t].creator.val]

C12_CreatorUnderLock == []C12_StateInv /\ [][C12_Step]_vars

\* a creator runs for one key while another thread's insert of the other key
\* waits for the lock
C12_Witness ==
    \E t, u \in Threads :
        /\ pc[t] = "creator"
        /\ pc[u] = "wait"
        /\ op[u].name = "insert"
        /\ op[u].key # op[t].key
        /\ table[op[u].key] = NoVal

\* ---- a sequential insert-only map: a set of <<key, value>> pairs ----
AbsMap(tbl) == {<<k, tbl[k]>> : k \in Present(tbl)}

SeqHas(m, k) == \E p \in m : p[1] = k

SeqVal(m, k) == (CHOOSE p \in m : p[1] = k)[2]

SeqPut(m, k, v) == IF SeqHas(m, k) THEN m ELSE m \cup {<<k, v>>}

\* what the call o yields when it runs alone on the sequential map m
SeqResult(m, o) ==
    CASE o.name = "insert" ->
            [kind |-> "bool", val |-> IF SeqHas(m, o.key) THEN 0 ELSE 1]
      [] o.name = "contains_key" ->
            [kind |-> "bool", val |-> IF SeqHas(m, o.key) THEN 1 ELSE 0]
      [] o.name = "get" ->
            IF SeqHas(m, o.key) THEN [kind |-> "some", val |-> SeqVal(m, o.key)]
                                ELSE [kind |-> "none", val |-> 0]
      [] o.name = "get_or_insert" ->
            [kind |-> "ref",
             val |-> IF SeqHas(m, o.key) THEN SeqVal(m, o.key) ELSE o.creator.val]
      [] o.name = "get_or_try_insert" ->
            IF SeqHas(m, o.key) THEN [kind |-> "ok", val |-> SeqVal(m, o.key)]
            ELSE IF o.creator.kind = "ok" THEN [kind |-> "ok", val |-> o.creator.val]
            ELSE [kind |-> "err", val |-> o.creator.val]
      [] o.name = "len" -> [kind |-> "int", val |-> Cardinality(m)]
      [] o.name = "is_empty" -> [kind |-> "bool", val |-> IF m = {} THEN 1 ELSE 0]
      [] OTHER -> [kind |-> "view", val |-> 0]

\* the sequential map after the call o
SeqAfter(m, o) ==
    CASE o.name = "insert" -> SeqPut(m, o.key, o.val)
      [] IsFetch(o) /\ o.creator.kind = "ok" -> SeqPut(m, o.key, o.creator.val)
      [] OTHER -> m

\* thread t is inside a critical section of the lock
InCritical(t) ==
    pc[t] \in {"locked", "creator"} \/ view[t] # NoView \/ SelfBlocked(t)

\* the last call of t saw key k present
SawPresent(t, k) ==
    /\ ret[t].key = k
    /\ \/ ret[t].kind \in RefKinds
       \/ ret[t].name = "insert" /\ ret[t].val = 0
       \/ ret[t].name = "contains_key" /\ ret[t].val = 1
       \/ ret[t].kind = "item"

\* C13: the operations are linearized by the lock: critical sections exclude
\* each other, and the result of each call and the table it leaves are those
\* of running the call alone, in critical-section order, on a sequential
\* insert-only map; a call that sees a key present comes after the call that
\* inserted it.
C13_StateInv ==
    /\ \A t \in Threads : InCritical(t) <=> lockOwner = t
    /\ \A k \in Keys : \A t \in Threads :
        SawPresent(t, k) => (writes[k] = 1 /\ storedBy[k] # "none")

C13_Step ==
    /\ \A t \in Threads :
        Returning(t) =>
            /\ ret'[t].kind = SeqResult(AbsMap(table), op[t]).kind
            /\ ret'[t].val = SeqResult(AbsMap(table), op[t]).val
            /\ AbsMap(table') = SeqAfter(AbsMap(table), op[t])
            /\ op[t].name \in {"iter", "keys"} =>
                   view'[t].rest = {p[1] : p \in AbsMap(table)}
    /\ \A t \in Threads :
        (ret'[t] # ret[t] /\ ret'[t].kind = "item") =>
            /\ SeqHas(AbsMap(table), ret'[t].key)
            /\ ret'[t].name = "iter" => ret'[t].val = SeqVal(AbsMap(table), ret'[t].key)
    /\ (\A t \in Threads : ~Returning(t)) => AbsMap(table') = AbsMap(table)

C13_Linearizable == []C13_StateInv /\ [][C13_Step]_vars

\* one call stored a key through its creator and a later get of the other
\* thread saw that value
C13_Witness ==
    \E k \in Keys : \E t, u \in Threads :
        /\ t # u
        /\ Stored(t, k) /\ IsFetch(ret[t])
        /\ ret[u].name = "get" /\ ret[u].key = k /\ ret[u].kind = "some"
        /\ ret[u].val = ret[t].val

\* thread t's view yields an entry in this step
Yielding(t) == view[t] # NoView /\ view'[t] # NoView /\ view'[t].seen # view[t].seen

\* thread t's view reports its end in this step
Ending(t) == view[t] # NoView /\ ret'[t] # ret[t] /\ ret'[t].kind = "end"

\* C15: the view of iter() yields every stored (key, value) pair exactly once
\* and nothing else, the view of keys() every stored key exactly once, in
\* any order; a yielded value is the one get returns for that key.
C15_StateInv ==
    \A t \in Threads :
        view[t] # NoView =>
            /\ view[t].seen \cup view[t].rest = Present(table)
            /\ view[t].seen \cap view[t].rest = {}

C15_Step ==
    \A t \in Threads :
        /\ Yielding(t) =>
            /\ ret'[t].kind = "item"
            /\ ret'[t].key \notin view[t].seen
            /\ ContainsKey(table, ret'[t].key)
            /\ view'[t].seen = view[t].seen \cup {ret'[t].key}
            /\ view[t].kind = "iter" => ret'[t].val = table[ret'[t].key]
        /\ (ret'[t] # ret[t] /\ ret'[t].kind = "item") => Yielding(t)
        /\ Ending(t) => view[t].seen = Present(table)

C15_ViewYieldsAll == []C15_StateInv /\ [][C15_Step]_vars

\* an iter() view over two entries has yielded both and reported its end
C15_Witness ==
    \E t \in Threads :
        /\ view[t] # NoView
        /\ view[t].kind = "iter"
        /\ ret[t].kind = "end"
        /\ view[t].seen = Present(table)
        /\ \E k, j \in view[t].seen : k # j /\ table[k] # table[j]

\* C17: every failure a caller sees comes from a creator: get_or_try_insert
\* fails only when it found the key absent, called its own creator and that
\* creator failed, with that failure; with the key present the creator is not
\* called and the stored value comes back; no other operation returns a failure.
C17_StateInv ==
    \A t \in Threads :
        ret[t].kind \in {"err", "poison_error"} =>
            /\ ret[t].kind = "err"
            /\ ret[t].name = "get_or_try_insert"
            /\ ret[t].created
            /\ ret[t].val \in Errs

C17_Step ==
    \A t \in Threads :
        /\ (Returning(t) /\ ret'[t].kind = "err") =>
            /\ pc[t] = "creator"
            /\ op[t].name = "get_or_try_insert"
            /\ op[t].creator.kind = "err"
            /\ ret'[t].val = op[t].creator.val
            /\ ~ContainsKey(table, op[t].key)
            /\ table' = table
        /\ EnteringCreator(t) => ~ContainsKey(table, op[t].key)
        /\ (pc[t] = "locked" /\ IsFetch(op[t]) /\ ContainsKey(table, op[t].key)
                /\ pc'[t] # pc[t]) =>
            /\ Returning(t)
            /\ ret'[t].kind = FetchKind(op[t])
            /\ ret'[t].val = table[op[t].key]
            /\ ~ret'[t].created

C17_FailuresFromCreator == []C17_StateInv /\ [][C17_Step]_vars

\* on a lock poisoned by the other thread's panic, a get_or_try_insert got
\* its own creator's failure for a key that stays absent
C17_Witness ==
    \E t, u \in Threads :
        /\ ret[t].name = "get_or_try_insert" /\ ret[t].kind = "err"
        /\ ~ContainsKey(table, ret[t].key)
        /\ pc[u] = "dead"
        /\ poisoned

\* C18: every operation but iter() and keys() releases the lock before it
\* returns, on every exit path; when no operation is in progress and no view
\* is alive, the lock is free.
C18_StateInv ==
    /\ \A t \in Threads :
        (pc[t] \in {"idle", "dead"} /\ view[t] = NoView) => lockOwner # t
    /\ (\A t \in Threads : pc[t] \in {"idle", "dead"} /\ view[t] = NoView) =>
           lockOwner = NoThread

C18_Step ==
    \A t \in Threads :
        /\ (Returning(t) /\ op[t].name \notin {"iter", "keys"}) => lockOwner' = NoThread
        /\ (pc[t] = "creator" /\ pc'[t] = "dead") => lockOwner' = NoThread

C18_LockReleased == []C18_StateInv /\ [][C18_Step]_vars

\* a get_or_try_insert left through `?` and the lock is free: the other
\* thread's call got it
C18_Witness ==
    \E t, u \in Threads :
        /\ ret[t].kind = "err"
        /\ pc[t] = "idle"
        /\ pc[u] = "locked"
        /\ lockOwner = u

Observers == {"contains_key", "get", "len", "is_empty", "iter", "keys"}

\* C20: contains_key, get, len, is_empty, iter and keys (advancing and
\* discarding a view included) leave the table unchanged and agree with each
\* other: get(k) returns a value exactly when contains_key(k) holds,
\* is_empty() exactly when len() = 0, and len() is the number of entries a
\* view yields.
C20_Step ==
    \A t \in Threads :
        /\ (Returning(t) /\ op[t].name \in Observers) => table' = table
        /\ (view[t] # NoView /\ (view'[t] # view[t] \/ ret'[t] # ret[t])) => table' = table
        /\ (Returning(t) /\ op[t].name = "get") =>
               (ret'[t].kind = "some" <=> ContainsKey(table, op[t].key))
        /\ (Returning(t) /\ op[t].name = "contains_key") =>
               (ret'[t].val = 1 <=> table[op[t].key] \in Values)
        /\ (Returning(t) /\ op[t].name = "is_empty") =>
               (ret'[t].val = 1 <=> Len(table) = 0)
        /\ (Returning(t) /\ op[t].name = "len") =>
               ret'[t].val = Cardinality(Present(table))
        /\ (Returning(t) /\ op[t].name \in {"iter", "keys"}) =>
               Cardinality(view'[t].rest) = Len(table)
        /\ Ending(t) => Cardinality(view[t].seen) = Len(table)

C20_ObserversAgree == [][C20_Step]_vars

\* len() said 2 and a later keys() view yielded two keys
C20_Witness ==
    \E t, u \in Threads :
        /\ ret[t].name = "len" /\ ret[t].val = 2
        /\ ret[u].name = "keys" /\ ret[u].kind = "end"
        /\ Cardinality(view[u].seen) = 2

\* every live thread is inside lock(), none of them called while holding the lock
AllWaiting ==
    /\ ~SelfDeadlocked
    /\ \A t \in Threads : pc[t] \in {"wait", "dead"}
    /\ \E t \in Threads : pc[t] = "wait"

\* C19: deadlock freedom under well-behaved use: when no thread calls an
\* operation while it owns a live view or runs a creator, creators come to an
\* end and views are discarded, every call that was made eventually returns
\* under fair scheduling, and the threads never all wait for a lock that
\* nobody is going to release.
C19_NoAllBlocked ==
    AllWaiting =>
        /\ lockOwner = NoThread
        /\ \A t \in Threads : pc[t] = "wait" => ENABLED Acquire(t)

C19_DeadlockFree ==
    /\ []C19_NoAllBlocked
    /\ \A t \in Threads : (pc[t] = "wait") ~> (Done(t) \/ SelfDeadlocked)

\* both threads are inside lock() of a container that holds two entries, and
\* the lock is free
C19_Witness ==
    /\ \A t \in Threads : pc[t] = "wait"
    /\ lockOwner = NoThread
    /\ Len(table) = 2

\* ---- references that outlive the critical section ----
\* what a read through the reference in r finds: the stored value while the
\* reference points into the table's current allocation; once the table has
\* moved its entries the reference points into freed memory and the read may
\* find anything
ReadThrough(r) ==
    IF r.addr = RefAddr(gen) THEN {table[r.key]} ELSE Values \cup {NoVal}

\* ---- the caller uses a reference it was handed (assert_eq!(one, "one")) ----
Deref(t) ==
    /\ UNCHANGED <<gen, c2, lockOwner2>>
    /\ pc[t] = "idle"
    /\ ret[t].kind \in RefKinds
    /\ \E v \in ReadThrough(ret[t]) : ret' = [ret EXCEPT ![t].val = v]
    /\ UNCHANGED <<table, lockOwner, poisoned, pc, op, view, invoked, writes, storedBy>>

RefCalls ==
    {o \in Calls : /\ o.name \in {"insert", "get", "get_or_insert"}
                   /\ o.creator.kind \in {"none", "ok"}}

RefCall(t) == \E o \in RefCalls : Invoke(t, o)

\* the calls that hand out references, inserts that may make the table grow,
\* and reads through the references handed out
RefNext ==
    \E t \in Threads :
        \/ RefCall(t)
        \/ Acquire(t)
        \/ Insert(t)
        \/ InsertGrow(t)
        \/ Get(t)
        \/ GetOrTryInsert(t)
        \/ CreatorOk(t)
        \/ CreatorOkGrow(t)
        \/ Deref(t)

RefSpec == Init /\ [][RefNext]_vars

\* C16: a reference returned by get, get_or_insert or get_or_try_insert keeps
\* denoting the same referent, at the same address and with the same content,
\* after the lock is released and after later insertions of other keys,
\* insertions that make the table move its entries included.
C16_StableReference ==
    \A t \in Threads :
        (pc[t] = "idle" /\ ret[t].kind \in RefKinds) =>
            /\ ret[t].addr = RefAddr(gen)
            /\ ret[t].val = table[ret[t].key]

\* ---- Clone for MemoMap, and the operations of the clone ----
CloneOp == [name |-> "clone", key |-> 0, val |-> 0, creator |-> NoCreator]

\* HashMap::clone: a table of its own with duplicates of the entries
ClonedTable(tbl) == [k \in Keys |-> tbl[k]]

\* a clone that hands out the source's Mutex (an Arc-like clone)
SourceLockOwner == lockOwner

\* the owner of the clone's lock: Mutex::new(..) made the clone a lock of its own
CloneLockOwner == lockOwner2

\* ---- c1.clone(): lock!(self.inner).clone() inside Mutex::new; the guard is
\* a temporary, dropped at the end of the expression ----
Clone(t) ==
    /\ UNCHANGED gen
    /\ pc[t] = "locked"
    /\ op[t].name = "clone"
    /\ c2' = [made |-> TRUE, inner |-> ClonedTable(table)]
    /\ lockOwner2' = NoThread
    /\ Return(t, Ret(op[t], "map", 0, FALSE))
    /\ UNCHANGED <<table, poisoned, view, invoked, writes, storedBy>>

\* the program clones the container once
CloneCall(t) ==
    /\ ~c2.made
    /\ \A u \in Threads : op[u].name # "clone"
    /\ Invoke(t, CloneOp)

\* ---- a thread calls an operation of the clone: lock!(c2.inner) ----
Invoke2(t, o) ==
    /\ UNCHANGED <<gen, c2, lockOwner2>>
    /\ c2.made
    /\ pc[t] = "idle"
    /\ op' = [op EXCEPT ![t] = o]
    /\ pc' = [pc EXCEPT ![t] = "wait2"]
    /\ ret' = [ret EXCEPT ![t] = NoRet]
    /\ UNCHANGED <<table, lockOwner, poisoned, view, invoked, writes, storedBy>>

Calls2 == {o \in Calls : o.name \in {"insert", "len"}}

Call2(t) == \E o \in Calls2 : Invoke2(t, o)

\* ---- lock!(c2.inner) returns the guard of the clone's lock ----
Acquire2(t) ==
    /\ UNCHANGED <<gen, c2>>
    /\ pc[t] = "wait2"
    /\ LockAvailable(CloneLockOwner)
    /\ lockOwner2' = t
    /\ pc' = [pc EXCEPT ![t] = "locked2"]
    /\ UNCHANGED <<table, lockOwner, poisoned, op, ret, view, invoked, writes, storedBy>>

\* the call on the clone returns r and its guard goes out of scope
Return2(t, r) ==
    /\ pc' = [pc EXCEPT ![t] = "idle"]
    /\ op' = [op EXCEPT ![t] = NoOp]
    /\ ret' = [ret EXCEPT ![t] = r]
    /\ lockOwner2' = NoThread

\* ---- c2.insert(k, v) ----
Insert2(t) ==
    /\ UNCHANGED gen
    /\ pc[t] = "locked2"
    /\ op[t].name = "insert"
    /\ LET k == op[t].key
           v == op[t].val
       IN IF EntryVacant(c2.inner, k)
          THEN /\ c2' = [c2 EXCEPT !.inner = MapInsert(@, k, v)]
               /\ Return2(t, Ret(op[t], "bool", 1, FALSE))
          ELSE /\ UNCHANGED c2
               /\ Return2(t, Ret(op[t], "bool", 0, FALSE))
    /\ UNCHANGED <<table, lockOwner, poisoned, view, invoked, writes, storedBy>>

\* ---- c2.len() ----
Len2(t) ==
    /\ UNCHANGED <<gen, c2>>
    /\ pc[t] = "locked2"
    /\ op[t].name = "len"
    /\ Return2(t, Ret(op[t], "int", Len(c2.inner), FALSE))
    /\ UNCHANGED <<table, lockOwner, poisoned, view, invoked, writes, storedBy>>

Calls1 ==
    {o \in Calls : /\ o.name \in {"insert", "get_or_insert", "iter"}
                   /\ o.creator.kind \in {"none", "ok"}}

Call1(t) == \E o \in Calls1 : Invoke(t, o)

\* a container, its clone, and insertions, creators and views on the first
\* while threads insert into and measure the second
CloneNext ==
    \E t \in Threads :
        \/ Call1(t)
        \/ CloneCall(t)
        \/ Acquire(t)
        \/ Insert(t)
        \/ GetOrTryInsert(t)
        \/ CreatorOk(t)
        \/ Iter(t)
        \/ ViewDrop(t)
        \/ Clone(t)
        \/ Call2(t)
        \/ Acquire2(t)
        \/ Insert2(t)
        \/ Len2(t)

CloneSpec == Init /\ [][CloneNext]_vars

\* thread t's clone() returns in this step
Cloning(t) == pc[t] = "locked" /\ op[t].name = "clone" /\ pc'[t] = "idle"

\* C14: after c2 = c1.clone(), c2 holds the entries c1 had at the time of the
\* clone under a lock and storage of its own: a later insertion into c1 leaves
\* c2's entries and c2.len() as they were, a later insertion into c2 leaves
\* c1 as it was, and a thread holding c1's lock (a live view, a running
\* creator) does not block the operations on c2.
C14_StateInv ==
    /\ ~c2.made => (c2 = NoClone /\ lockOwner2 = NoThread)
    /\ \A u \in Threads :
        /\ pc[u] = "locked2" <=> lockOwner2 = u
        /\ (pc[u] = "wait2" /\ lockOwner2 = NoThread) => ENABLED Acquire2(u)
        /\ (pc[u] = "wait" /\ lockOwner = NoThread) => ENABLED Acquire(u)

C14_Step ==
    /\ \A t \in Threads :
        Cloning(t) =>
            /\ c2'.made
            /\ c2'.inner = table
            /\ table' = table
            /\ lockOwner' = NoThread
            /\ lockOwner2' = NoThread
    /\ (c2.made /\ table' # table) => c2' = c2
    /\ (c2.made /\ c2' # c2) => (table' = table /\ lockOwner' = lockOwner)
    /\ \A t \in Threads :
        (pc[t] = "locked2" /\ pc'[t] = "idle") =>
            /\ table' = table
            /\ op[t].name = "len" =>
                   (ret'[t].val = Cardinality(Present(c2.inner)) /\ c2' = c2)
            /\ op[t].name = "insert" =>
                   /\ \A k \in Keys \ {op[t].key} : c2'.inner[k] = c2.inner[k]
                   /\ c2'.inner[op[t].key] =
                          IF ret'[t].val = 1 THEN op[t].val ELSE c2.inner[op[t].key]

C14_CloneIndependent == []C14_StateInv /\ [][C14_Step]_vars

\* while one thread keeps a view of c1 alive, the other is inside a critical
\* section of the clone, whose entries are no longer those of c1
C14_Witness ==
    \E t, u \in Threads :
        /\ view[t] # NoView
        /\ pc[u] = "locked2"
        /\ c2.made
        /\ Len(c2.inner) >= 1
        /\ c2.inner # table

====
